---- MODULE Spec2Model ----
(***************************************************************************)
(* The request multiplexer of package cache (request.process, getValue,    *)
(* the pull goroutine and the answer goroutines) and Cache.Request.        *)
(*                                                                         *)
(* The package holds two drafts of the multiplexer.  The one modelled is   *)
(* the draft the stream materializers call: getValue(index) returning      *)
(* (value, ok), with removeStream and Error.  The draft of request.go      *)
(* (client materializers, getValue returning (value, error)) has the       *)
(* same wait set and pull guard, and a hit test that also skips items      *)
(* older than the cache timeout.                                           *)
(*                                                                         *)
(* Go indices are 0-based, TLA+ sequences 1-based: view[i] of the source   *)
(* is view[i + 1] here.                                                    *)
(***************************************************************************)
EXTENDS Integers, Sequences, FiniteSets, TLC

\* ---------------------------------------------------------------- bounds
NumReaders == 2      \* concurrent callers of getValue
MaxAsks == 2         \* askPipes made over the multiplexer's lifetime
MaxIndex == 1        \* largest index a caller passes to getValue
MaxStream == 1       \* values the backend stream holds before it ends
NumKeys == 2         \* distinct query strings
MaxTime == 2         \* clock ticks that pass
MaxTimeout == 2      \* largest configured cache timeout, in ticks
MaxRequests == 3     \* calls of Cache.Request
MaxOps == 2          \* calls of Materialize, Reset and Close on the streams
MaxSizeLen == 2      \* length of the size strings tried, the named ones apart
MaxBytes == 1        \* largest magnitude of the int64 sizes tried
NumReqs == 2         \* requesters of the cache manager, one check each
NumManKeys == 1      \* distinct well-formed requests to the cache manager
MaxManTime == 1      \* clock ticks that pass in the cache manager
ManTimeout == 1      \* cacheMan.cacheTimeout, in ticks
MaxDeltas == 1       \* deltas handed to one ApplyDeltas
IntBits == 3         \* width the iterator's int64 is scaled down to
MaxPastEnd == 2      \* Next calls made after one has returned false

Readers == 1..NumReaders
Pipes == 1..MaxAsks
Keys == 1..NumKeys

\* ------------------------------------------------------------ Go values
\* the zero graph.Value: what Materialize returns beside ok = false
Nil == 0
\* the nil error
NoErr == "nil"
\* the error dbStream.Error() reports after a failed Materialize
DbErr == "dbErr"

VARIABLES
    view,       \* request.view
    waiting,    \* process: var waiting []ansCh (nil is the empty sequence)
    rerr,       \* request.err
    inFlight,   \* pull goroutines inside r.dbStream.Materialize()
    ready,      \* pull goroutines blocked on materialized <- val
    calls,      \* invocations of r.dbStream.Materialize() so far
    dbLen,      \* backend: number of values of the stream
    dbTerminal, \* backend: how the stream ends, "eos" or "err"
    dbPos,      \* backend: values handed out so far
    dbEnded,    \* backend: Materialize has returned ok = false
    answers,    \* the answer goroutines spawned by process
    chan,       \* state of every pipe.out: "unmade", "open", "closed"
    nextPipe,   \* askPipes made so far, plus one
    rpc,        \* where each caller of getValue is
    ridx,       \* the index each caller asked for (after the sanity check)
    rpipe,      \* the pipe each caller made in askPipes
    got,        \* what getValue last returned to each caller
    panicked,   \* a goroutine sent on, or closed, a closed channel
    rclose,     \* request.asks: "open", "closed" by Close, "panic" of a second Close
    procDone,   \* the request's process has returned
    ctimeout,   \* Cache.timeout
    now,        \* the clock time.Since reads
    stable,     \* Cache.stable: query -> entry
    nStreams,   \* backend streams (and so requests) created so far
    reqs,       \* the calls of Cache.Request so far, in order
    sidx,       \* stream.index of every stream materializer
    spc,        \* where each stream's process goroutine is
    serr,       \* stream.err
    sclosed,    \* stream.closed
    resetCh,    \* stream.reset: "open" or "closed"
    valuesCh,   \* stream.values: "open" or "closed"
    streams,    \* request.streams
    cpc,        \* the call a stream's consumer is blocked in, if any
    cres,       \* what the consumer's last Materialize or Reset came to
    asked,      \* the indices a stream asked for since it was made or reset
    wasReset,   \* the stream's process has taken a Reset
    nops,       \* calls made on the streams so far
    sizeBytes,  \* Cache.sizeBytes
    sizeIn,     \* the argument of the last Size option applied
    sizeErr,    \* what the last Size option or New came to
    sizeOp,     \* the last of New and Size that ran
    cmPc,       \* where each requester's check is on its way through the manager
    cmKey,      \* the request string each requester sent on its pipe.in
    cmResp,     \* the response a flush bound for each requester's fill pipe
    reqOut,     \* what was sent on each requester's pipe.out
    checkPipes, \* cacheMan.checkPipes, the pipes buffered in it
    fillPipes,  \* cacheMan.fillPipes, the pipes buffered in it
    torn,       \* TeardownCache has closed checkPipes and fillPipes
    cmCheckDone,\* cacheCheck has returned
    cmFillDone, \* cacheFill has returned and closed flush
    cmInFlight, \* cacheFill: inFlight
    cmWaiting,  \* cacheFill: waiting
    cmMiss,     \* the miss goroutines running, per request
    flush,      \* cacheFill: flush, the results buffered in it
    lru,        \* cacheMan.cache
    cmNow,      \* the clock
    cmFetches,  \* fetches made on the database so far
    cmPanic,    \* the panic that ended the program, if any
    dDeltas,    \* ApplyDeltas: deltas
    dPc,        \* ApplyDeltas: "idle", "waiting" in wg.Wait, "returned"
    dWriters,   \* the write goroutines that have not finished
    errCh,      \* ApplyDeltas: errCh, the errors buffered in it
    errClosed,  \* errCh is closed
    dErr,       \* ApplyDeltas: err
    dRet,       \* the error ApplyDeltas returned
    dReported,  \* the errors the writes came back with, in order
    dCollect,   \* the goroutine reading errCh: "none", "running", "done", "panic"
    itMade,     \* an Int64 has been built
    itMin,      \* Int64.min
    itMax,      \* Int64.max
    itAt,       \* Int64.at
    itResult,   \* Base.result, <<>> while unset
    itYield,    \* the values Next has returned true with since NewInt64 / Reset
    itRet,      \* what the last Next returned, <<>> before the first
    itPast      \* Next calls that returned false since NewInt64 / Reset

muxVars == <<view, waiting, rerr, inFlight, ready, calls, dbLen, dbTerminal,
             dbPos, dbEnded, answers, chan, nextPipe, rpc, ridx, rpipe, got,
             panicked, rclose, procDone>>

sizeVars == <<sizeBytes, sizeIn, sizeErr, sizeOp>>

cacheVars == <<ctimeout, now, stable, nStreams, reqs, sizeVars>>

streamVars == <<sidx, spc, serr, sclosed, resetCh, valuesCh, streams, cpc,
                cres, asked, wasReset, nops>>

manVars == <<cmPc, cmKey, cmResp, reqOut, checkPipes, fillPipes, torn,
             cmCheckDone, cmFillDone, cmInFlight, cmWaiting, cmMiss, flush,
             lru, cmNow, cmFetches, cmPanic>>

deltaVars == <<dDeltas, dPc, dWriters, errCh, errClosed, dErr, dRet, dReported,
               dCollect>>

iterVars == <<itMade, itMin, itMax, itAt, itResult, itYield, itRet, itPast>>

\* the state of the graph backends and iterators
graphVars == <<manVars, deltaVars, iterVars>>

vars == <<muxVars, cacheVars, streamVars, graphVars>>

\* nothing returned yet
NoAnswer == [index |-> -1, value |-> Nil, ok |-> FALSE, kind |-> "none", own |-> 0]

\* the k-th value of the backend stream (values are told apart by position)
dbValue(k) == k

\* dbStream.Error(): nil after a clean end of stream
dbError == IF dbTerminal = "err" THEN DbErr ELSE NoErr

\* getValue: if index < 0 { index = 0 }
SanityIndex(index) == IF index < 0 THEN 0 ELSE index

\* a hit test that is off by one: the last cached item counts as a miss
IsCachedOffByOne(index, v) == index + 1 < Len(v)

\* process: if ask.index < len(r.view)
IsCached(index, v) == index < Len(v)

\* a pull started for every miss, whether or not one is outstanding
ShouldPullAlways(w) == TRUE

\* process: if waiting == nil
ShouldPull(w) == w = <<>>

Range(s) == {s[k] : k \in 1..Len(s)}

RemoveAt(s, i) == SubSeq(s, 1, i - 1) \o SubSeq(s, i + 1, Len(s))

\* ------------------------------------------------------------------ Init
\* newRequest: a fresh request, nothing materialized, no pull started
InitMux ==
    /\ waiting = <<>>
    /\ rerr = NoErr
    /\ inFlight = 0
    /\ ready = <<>>
    /\ answers = {}
    /\ chan = [p \in Pipes |-> "unmade"]
    /\ nextPipe = 1
    /\ rpc = [r \in Readers |-> "idle"]
    /\ ridx = [r \in Readers |-> 0]
    /\ rpipe = [r \in Readers |-> 0]
    /\ got = [r \in Readers |-> NoAnswer]
    /\ panicked = FALSE
    /\ dbEnded = FALSE
    /\ rclose = "open"
    /\ procDone = FALSE

\* no entry of the cache
NoEntry == [present |-> FALSE, birth |-> 0, immutable |-> FALSE, mux |-> 0]

\* no Size option applied yet
NoInput == [kind |-> "none", str |-> <<>>, n |-> 0]

\* New: empty stable table, no request made; budget of the zero value
InitCache ==
    /\ now = 0
    /\ stable = [k \in Keys |-> NoEntry]
    /\ nStreams = 0
    /\ reqs = <<>>
    /\ sizeBytes = 0
    /\ sizeIn = NoInput
    /\ sizeErr = NoErr
    /\ sizeOp = "none"

\* no call of the consumer has returned yet
NoResult == [op |-> "none", kind |-> "none", value |-> Nil, closed |-> FALSE,
             peerClosed |-> FALSE]

\* newStreamMaterializer: index 0, both channels open, not closed, no error;
\* the stream is not entered in request.streams
InitStreams ==
    /\ sidx = [h \in Readers |-> 0]
    /\ spc = [h \in Readers |-> "select"]
    /\ serr = [h \in Readers |-> NoErr]
    /\ sclosed = [h \in Readers |-> FALSE]
    /\ resetCh = [h \in Readers |-> "open"]
    /\ valuesCh = [h \in Readers |-> "open"]
    /\ streams = {}
    /\ cpc = [h \in Readers |-> "idle"]
    /\ cres = [h \in Readers |-> NoResult]
    /\ asked = [h \in Readers |-> <<>>]
    /\ wasReset = [h \in Readers |-> FALSE]
    /\ nops = 0

\* the requesters and the requests of the cache manager
Reqs == 1..NumReqs
ManKeys == 1..NumManKeys

\* rqst == "": the bad request hit answers with nil
EmptyRqst == 0

\* a request miss knows no fetch for
UnknownRqst == -1

\* no entry of the LRU cache under a key
NoLru == [present |-> FALSE, birth |-> 0, data |-> Nil]

\* InitCache: both channels made and open, cacheCheck and cacheFill
\* started, nothing cached, no request made
InitMan ==
    /\ cmPc = [i \in Reqs |-> "idle"]
    /\ cmKey = [i \in Reqs |-> EmptyRqst]
    /\ cmResp = [i \in Reqs |-> Nil]
    /\ reqOut = [i \in Reqs |-> <<>>]
    /\ checkPipes = <<>>
    /\ fillPipes = <<>>
    /\ torn = FALSE
    /\ cmCheckDone = FALSE
    /\ cmFillDone = FALSE
    /\ cmInFlight = {}
    /\ cmWaiting = [k \in ManKeys \cup {UnknownRqst} |-> <<>>]
    /\ cmMiss = [k \in ManKeys \cup {UnknownRqst} |-> 0]
    /\ flush = <<>>
    /\ lru = [k \in ManKeys |-> NoLru]
    /\ cmNow = 0
    /\ cmFetches = 0
    /\ cmPanic = "none"

\* the deltas tried: a quad that is valid or not, to add, to delete, or
\* with an action that is neither
DeltaKinds == [valid : BOOLEAN, action : {"add", "delete", "other"}]

RECURSIVE DeltaSeqs(_)
DeltaSeqs(n) ==
    IF n = 0 THEN {<<>>}
    ELSE {Append(t, d) : t \in DeltaSeqs(n - 1), d \in DeltaKinds}

\* ApplyDeltas not yet called
InitDeltas ==
    /\ dDeltas = <<>>
    /\ dPc = "idle"
    /\ dWriters = {}
    /\ errCh = <<>>
    /\ errClosed = FALSE
    /\ dErr = Nil
    /\ dRet = Nil
    /\ dReported = <<>>
    /\ dCollect = "none"

\* no Int64 built yet
InitIter ==
    /\ itMade = FALSE
    /\ itMin = 0
    /\ itMax = 0
    /\ itAt = 0
    /\ itResult = <<>>
    /\ itYield = <<>>
    /\ itRet = <<>>
    /\ itPast = 0

InitGraph == InitMan /\ InitDeltas /\ InitIter

\* one multiplexer over a backend stream of any length and ending
Init ==
    /\ InitMux
    /\ dbLen \in 0..MaxStream
    /\ dbTerminal \in {"eos", "err"}
    /\ view = <<>>
    /\ dbPos = 0
    /\ calls = 0
    /\ InitCache
    /\ ctimeout = 0
    /\ InitStreams
    /\ InitGraph

\* --------------------------------------------------------------- actions
\* the process sends every answer itself and waits for its receiver
ProcessBusyInline == \E g \in answers : g.pc = "send"

\* process is held up by an answer it owes: never, every answer is sent by
\* a goroutine of its own (go func() { pipe.out <- ans ... }, go func() {
\* ansCh <- ... }) and process goes back to its select at once
ProcessBusy == FALSE

\* getValue up to <-pipe.out, and the process's case pipe := <-r.asks:
\* the caller makes its pipe, hands it over r.asks and sends its ask on
\* pipe.in; process serves it from the view or puts it in the wait set,
\* starting a pull when the wait set was nil.
Ask(r, index) ==
    LET i == SanityIndex(index)
        p == nextPipe
    IN  /\ ~panicked
        /\ ~ProcessBusy
        /\ rclose = "open"
        /\ rpc[r] = "idle"
        /\ nextPipe <= MaxAsks
        /\ nextPipe' = nextPipe + 1
        /\ chan' = [chan EXCEPT ![p] = "open"]
        /\ rpc' = [rpc EXCEPT ![r] = "waiting"]
        /\ ridx' = [ridx EXCEPT ![r] = i]
        /\ rpipe' = [rpipe EXCEPT ![r] = p]
        /\ IF IsCached(i, view)
           THEN /\ answers' = answers \cup
                       {[own |-> p, rest |-> <<p>>, val |-> view[i + 1],
                         kind |-> "hit", pc |-> "send"]}
                /\ UNCHANGED <<waiting, inFlight, calls>>
           ELSE /\ IF ShouldPull(waiting)
                   THEN /\ inFlight' = inFlight + 1
                        /\ calls' = calls + 1
                   ELSE UNCHANGED <<inFlight, calls>>
                /\ waiting' = Append(waiting, p)
                /\ UNCHANGED answers
        /\ UNCHANGED <<rclose, procDone, view, rerr, ready, dbLen, dbTerminal, dbPos, dbEnded,
                       got, panicked, cacheVars, graphVars>>

\* the pull goroutine: val, ok := r.dbStream.Materialize() returns; on
\* !ok r.err = r.dbStream.Error(); the goroutine then blocks on
\* materialized <- val
PullReturn ==
    /\ ~panicked
    /\ inFlight > 0
    /\ inFlight' = inFlight - 1
    /\ IF dbPos < dbLen
       THEN /\ dbPos' = dbPos + 1
            /\ ready' = Append(ready, [val |-> dbValue(dbPos + 1), kind |-> "val"])
            /\ UNCHANGED <<rerr, dbEnded>>
       ELSE /\ dbEnded' = TRUE
            /\ rerr' = dbError
            /\ ready' = Append(ready, [val |-> Nil, kind |-> dbTerminal])
            /\ UNCHANGED dbPos
    /\ UNCHANGED <<rclose, procDone, view, waiting, calls, dbLen, dbTerminal, answers, chan,
                   nextPipe, rpc, ridx, rpipe, got, panicked,
                   cacheVars, graphVars, streamVars>>

\* process: case val := <-materialized: one answer goroutine per waiter,
\* then waiting = nil.  The goroutines share the loop variable ansCh, so
\* the one spawned for waiting[k] may find in it any of waiting[k..].
ProcessMaterialized ==
    /\ ~panicked
    /\ ~ProcessBusy
    /\ ~procDone
    /\ \E j \in 1..Len(ready) :
          /\ ready' = RemoveAt(ready, j)
          /\ answers' = answers \cup
                { [own |-> waiting[k],
                   rest |-> SubSeq(waiting, k, Len(waiting)),
                   val |-> ready[j].val,
                   kind |-> ready[j].kind,
                   pc |-> "send"] : k \in 1..Len(waiting) }
    /\ waiting' = <<>>
    /\ UNCHANGED <<rclose, procDone, view, rerr, inFlight, calls, dbLen, dbTerminal, dbPos,
                   dbEnded, chan, nextPipe, rpc, ridx, rpipe, got, panicked,
                   cacheVars, graphVars, streamVars>>

\* getValue: if ans != nil { return ans.value, (ans.err == nil) }
GetValueResult(r, g, err) ==
    [index |-> ridx[r], value |-> g.val, ok |-> (err = NoErr),
     kind |-> g.kind, own |-> g.own]

\* the error an answer carries: none for a cached item, r.err (read when
\* the goroutine runs) for a pulled one
AnswerErr(g) == IF g.kind = "hit" THEN NoErr ELSE rerr

\* an answer goroutine's send (pipe.out <- ans, ansCh <- &valueAsk{...})
\* meeting the caller's ans := <-pipe.out; a send on a closed channel
\* panics
Deliver(g) ==
    /\ ~panicked
    /\ g \in answers
    /\ g.pc = "send"
    /\ \E j \in 1..Len(g.rest) :
          LET c == g.rest[j] IN
          IF chan[c] = "closed"
          THEN /\ panicked' = TRUE
               /\ UNCHANGED <<answers, rpc, got>>
          ELSE \E r \in Readers :
                  /\ rpc[r] = "waiting"
                  /\ rpipe[r] = c
                  /\ got' = [got EXCEPT ![r] = GetValueResult(r, g, AnswerErr(g))]
                  /\ rpc' = [rpc EXCEPT ![r] = "idle"]
                  /\ answers' = (answers \ {g}) \cup
                        {[g EXCEPT !.pc = "close",
                                   !.rest = SubSeq(g.rest, j, Len(g.rest))]}
                  /\ UNCHANGED panicked
    /\ UNCHANGED <<rclose, procDone, view, waiting, rerr, inFlight, ready, calls, dbLen,
                   dbTerminal, dbPos, dbEnded, chan, nextPipe, ridx, rpipe,
                   cacheVars, graphVars, streamVars>>

\* an answer goroutine's close(pipe.out), close(ansCh); closing a closed
\* channel panics; a caller still blocked on the channel receives nil
CloseCh(g) ==
    /\ ~panicked
    /\ g \in answers
    /\ g.pc = "close"
    /\ \E j \in 1..Len(g.rest) :
          LET c == g.rest[j] IN
          IF chan[c] = "closed"
          THEN /\ panicked' = TRUE
               /\ UNCHANGED <<answers, chan, rpc>>
          ELSE /\ chan' = [chan EXCEPT ![c] = "closed"]
               /\ answers' = answers \ {g}
               /\ rpc' = [r \in Readers |->
                             IF rpc[r] = "waiting" /\ rpipe[r] = c
                             THEN "closed" ELSE rpc[r]]
               /\ UNCHANGED panicked
    /\ UNCHANGED <<rclose, procDone, view, waiting, rerr, inFlight, ready, calls, dbLen,
                   dbTerminal, dbPos, dbEnded, nextPipe, ridx, rpipe, got,
                   cacheVars, graphVars, streamVars>>

\* getValue after a receive from a closed pipe.out:
\* return nil, (r.err == nil)
GetValueNil(r) ==
    /\ ~panicked
    /\ rpc[r] = "closed"
    /\ rpc' = [rpc EXCEPT ![r] = "idle"]
    /\ got' = [got EXCEPT ![r] =
                  [index |-> ridx[r], value |-> Nil, ok |-> (rerr = NoErr),
                   kind |-> IF chan[rpipe[r]] = "shut" THEN "shut" ELSE "closed",
                   own |-> 0]]
    /\ UNCHANGED <<rclose, procDone, view, waiting, rerr, inFlight, ready, calls, dbLen,
                   dbTerminal, dbPos, dbEnded, answers, chan, nextPipe, ridx,
                   rpipe, panicked,
                   cacheVars, graphVars, streamVars>>

Next ==
    \/ \E r \in Readers, index \in -1..MaxIndex :
          Ask(r, index) /\ UNCHANGED streamVars
    \/ PullReturn
    \/ ProcessMaterialized
    \/ \E g \in answers : Deliver(g)
    \/ \E g \in answers : CloseCh(g)
    \/ \E r \in Readers : GetValueNil(r)

Spec == Init /\ [][Next]_vars

\* a request whose view already holds the first values of the stream
InitView ==
    /\ InitMux
    /\ dbLen \in 0..MaxStream
    /\ dbTerminal \in {"eos", "err"}
    /\ \E n \in 0..dbLen :
          /\ view = [k \in 1..n |-> dbValue(k)]
          /\ dbPos = n
          /\ calls = n
    /\ InitCache
    /\ ctimeout = 0
    /\ InitStreams
    /\ InitGraph

SpecView == InitView /\ [][Next]_vars

\* request.Close: r.closed is never set, so every call runs the body:
\* r.streams is empty and closes nothing, close(r.asks) closes the channel
\* the first time and panics in the caller the second time
RequestClose ==
    /\ ~panicked
    /\ rclose # "panic"
    /\ rclose' = IF rclose = "open" THEN "closed" ELSE "panic"
    /\ UNCHANGED <<procDone, view, waiting, rerr, inFlight, ready, calls, dbLen,
                   dbTerminal, dbPos, dbEnded, answers, chan, nextPipe, rpc,
                   ridx, rpipe, got, panicked, cacheVars, streamVars, graphVars>>

\* process: case pipe, ok := <-r.asks with !ok: return, and the deferred
\* close of every channel still in waiting; "shut" is closed by process
ProcessReturn ==
    /\ ~panicked
    /\ ~ProcessBusy
    /\ ~procDone
    /\ rclose # "open"
    /\ procDone' = TRUE
    /\ chan' = [c \in Pipes |-> IF c \in Range(waiting) THEN "shut" ELSE chan[c]]
    /\ rpc' = [r \in Readers |->
                  IF rpc[r] = "waiting" /\ rpipe[r] \in Range(waiting)
                  THEN "closed" ELSE rpc[r]]
    /\ waiting' = <<>>
    /\ UNCHANGED <<rclose, view, rerr, inFlight, ready, calls, dbLen, dbTerminal,
                   dbPos, dbEnded, answers, nextPipe, ridx, rpipe, got, panicked,
                   cacheVars, streamVars, graphVars>>

\* getValue on a closed request: askPipes' r.asks <- pipe panics in the
\* caller
AskClosed(r) ==
    /\ ~panicked
    /\ rclose # "open"
    /\ rpc[r] = "idle"
    /\ got' = [got EXCEPT ![r] = [index |-> -1, value |-> Nil, ok |-> FALSE,
                                  kind |-> "panic", own |-> 0]]
    /\ UNCHANGED <<rclose, procDone, view, waiting, rerr, inFlight, ready, calls,
                   dbLen, dbTerminal, dbPos, dbEnded, answers, chan, nextPipe,
                   rpc, ridx, rpipe, panicked, cacheVars, streamVars, graphVars>>

\* a request that may be closed at any time
NextClose ==
    \/ Next
    \/ RequestClose
    \/ ProcessReturn
    \/ \E r \in Readers : AskClosed(r)

SpecClose == Init /\ [][NextClose]_vars

\* --------------------------------------------------------------- streams
\* every stream of the request, or (Close marking more than its own stream)
CloseSetAll(h) == Readers

\* stream.Close: st.closed = true; close(st.reset) -- the stream itself
CloseSet(h) == {h}

\* request.removeStream: delete(r.streams, st)
removeStream(set, h) == set \ {h}

\* what a call of the consumer came to
Result(h, op, kind, value) ==
    [op |-> op, kind |-> kind, value |-> value, closed |-> sclosed[h],
     peerClosed |-> (\E o \in Readers \ {h} : sclosed[o])]

\* process, select: case _, ok := <-reset with the channel closed:
\* return, and the deferred close(values)
StreamClosed(h) ==
    /\ ~panicked
    /\ spc[h] = "select"
    /\ resetCh[h] = "closed"
    /\ spc' = [spc EXCEPT ![h] = "done"]
    /\ valuesCh' = [valuesCh EXCEPT ![h] = "closed"]
    /\ UNCHANGED <<muxVars, cacheVars, graphVars, sidx, serr, sclosed, resetCh, streams,
                   cpc, cres, asked, wasReset, nops>>

\* process, select: case <-reset meeting a consumer blocked in Reset on
\* st.reset <- signal: st.index = 0, and Reset returns
StreamReset(h) ==
    /\ ~panicked
    /\ spc[h] = "select"
    /\ resetCh[h] = "open"
    /\ cpc[h] = "reset"
    /\ sidx' = [sidx EXCEPT ![h] = 0]
    /\ cpc' = [cpc EXCEPT ![h] = "idle"]
    /\ cres' = [cres EXCEPT ![h] = Result(h, "reset", "ok", Nil)]
    /\ asked' = [asked EXCEPT ![h] = <<>>]
    /\ wasReset' = [wasReset EXCEPT ![h] = TRUE]
    /\ UNCHANGED <<muxVars, cacheVars, graphVars, spc, serr, sclosed, resetCh, valuesCh,
                   streams, nops>>

\* process, select: default: st.index += 1; host.getValue(st.index) up to
\* its wait for the answer
StreamAsk(h) ==
    /\ spc[h] = "select"
    /\ resetCh[h] = "open"
    /\ cpc[h] # "reset"
    /\ sidx' = [sidx EXCEPT ![h] = sidx[h] + 1]
    /\ Ask(h, sidx[h] + 1)
    /\ spc' = [spc EXCEPT ![h] = "asking"]
    /\ asked' = [asked EXCEPT ![h] = Append(asked[h], sidx[h] + 1)]
    /\ UNCHANGED <<serr, sclosed, resetCh, valuesCh, streams, cpc, cres,
                   wasReset, nops>>

\* process: val, ok := host.getValue(st.index) has returned;
\* if !ok { st.err = host.Error(); return } with the deferred close(values),
\* else the process blocks on st.values <- val
StreamGot(h) ==
    /\ ~panicked
    /\ spc[h] = "asking"
    /\ rpc[h] = "idle"
    /\ IF got[h].ok
       THEN /\ spc' = [spc EXCEPT ![h] = "sending"]
            /\ UNCHANGED <<serr, valuesCh>>
       ELSE /\ spc' = [spc EXCEPT ![h] = "done"]
            /\ serr' = [serr EXCEPT ![h] = rerr]
            /\ valuesCh' = [valuesCh EXCEPT ![h] = "closed"]
    /\ UNCHANGED <<muxVars, cacheVars, graphVars, sidx, sclosed, resetCh, streams, cpc,
                   cres, asked, wasReset, nops>>

\* stream.Materialize: panic on a closed stream, else block on <-st.values
MaterializeCall(h) ==
    /\ ~panicked
    /\ nops < MaxOps
    /\ nops' = nops + 1
    /\ cpc[h] = "idle"
    /\ IF sclosed[h]
       THEN /\ cres' = [cres EXCEPT ![h] = Result(h, "materialize", "usage", Nil)]
            /\ UNCHANGED cpc
       ELSE /\ cpc' = [cpc EXCEPT ![h] = "materialize"]
            /\ UNCHANGED cres
    /\ UNCHANGED <<muxVars, cacheVars, graphVars, sidx, spc, serr, sclosed, resetCh,
                   valuesCh, streams, asked, wasReset>>

\* the process's st.values <- val meeting the consumer's <-st.values:
\* Materialize returns (val, true) and the process loops
StreamSend(h) ==
    /\ ~panicked
    /\ spc[h] = "sending"
    /\ cpc[h] = "materialize"
    /\ spc' = [spc EXCEPT ![h] = "select"]
    /\ cpc' = [cpc EXCEPT ![h] = "idle"]
    /\ cres' = [cres EXCEPT ![h] = Result(h, "materialize", "value", got[h].value)]
    /\ UNCHANGED <<muxVars, cacheVars, graphVars, sidx, serr, sclosed, resetCh, valuesCh,
                   streams, asked, wasReset, nops>>

\* stream.Materialize on closed st.values: returns (nil, false)
MaterializeEnd(h) ==
    /\ ~panicked
    /\ cpc[h] = "materialize"
    /\ valuesCh[h] = "closed"
    /\ cpc' = [cpc EXCEPT ![h] = "idle"]
    /\ cres' = [cres EXCEPT ![h] = Result(h, "materialize", "novalue", Nil)]
    /\ UNCHANGED <<muxVars, cacheVars, graphVars, sidx, spc, serr, sclosed, resetCh,
                   valuesCh, streams, asked, wasReset, nops>>

\* stream.Reset: panic on a closed stream, else block on st.reset <- signal
ResetCall(h) ==
    /\ ~panicked
    /\ nops < MaxOps
    /\ nops' = nops + 1
    /\ cpc[h] = "idle"
    /\ IF sclosed[h]
       THEN /\ cres' = [cres EXCEPT ![h] = Result(h, "reset", "usage", Nil)]
            /\ UNCHANGED cpc
       ELSE /\ cpc' = [cpc EXCEPT ![h] = "reset"]
            /\ UNCHANGED cres
    /\ UNCHANGED <<muxVars, cacheVars, graphVars, sidx, spc, serr, sclosed, resetCh,
                   valuesCh, streams, asked, wasReset>>

\* stream.Reset blocked on st.reset <- signal when Close closes st.reset:
\* the send panics in the caller of Reset
ResetOnClosed(h) ==
    /\ ~panicked
    /\ cpc[h] = "reset"
    /\ resetCh[h] = "closed"
    /\ cpc' = [cpc EXCEPT ![h] = "idle"]
    /\ cres' = [cres EXCEPT ![h] = Result(h, "reset", "panic", Nil)]
    /\ UNCHANGED <<muxVars, cacheVars, graphVars, sidx, spc, serr, sclosed, resetCh,
                   valuesCh, streams, asked, wasReset, nops>>

\* stream.Close, from the consumer or from another task: nothing on a
\* closed stream; else st.closed = true, close(st.reset), removeStream
StreamClose(h) ==
    /\ ~panicked
    /\ nops < MaxOps
    /\ nops' = nops + 1
    /\ IF sclosed[h]
       THEN UNCHANGED <<sclosed, resetCh, streams>>
       ELSE /\ sclosed' = [o \in Readers |->
                              IF o \in CloseSet(h) THEN TRUE ELSE sclosed[o]]
            /\ resetCh' = [o \in Readers |->
                              IF o \in CloseSet(h) THEN "closed" ELSE resetCh[o]]
            /\ streams' = removeStream(streams, h)
    /\ UNCHANGED <<muxVars, cacheVars, graphVars, sidx, spc, serr, valuesCh, cpc, cres,
                   asked, wasReset>>

\* the request serving streams: every ask comes from a stream's process
NextStream ==
    \/ \E h \in Readers : StreamClosed(h)
    \/ \E h \in Readers : StreamReset(h)
    \/ \E h \in Readers : StreamAsk(h)
    \/ \E h \in Readers : StreamGot(h)
    \/ \E h \in Readers : MaterializeCall(h)
    \/ \E h \in Readers : StreamSend(h)
    \/ \E h \in Readers : MaterializeEnd(h)
    \/ \E h \in Readers : ResetCall(h)
    \/ \E h \in Readers : ResetOnClosed(h)
    \/ \E h \in Readers : StreamClose(h)
    \/ PullReturn
    \/ ProcessMaterialized
    \/ \E g \in answers : Deliver(g)
    \/ \E g \in answers : CloseCh(g)
    \/ \E r \in Readers : GetValueNil(r)

SpecStream == Init /\ [][NextStream]_vars

\* ----------------------------------------------------------------- cache
\* a hit test that forgets the age of the entry
RequestHitAnyAge(k) == stable[k].present

\* Request: cr, hit := c.stable[query];
\*          if hit && time.Since(cr.birth) < c.timeout
RequestHit(k) == stable[k].present /\ now - stable[k].birth < ctimeout

\* Request, the miss: a backend stream for the query is made, wrapped in a
\* new request, and entered in the stable table with its birth and flag
RequestMiss(k, immutable) ==
    /\ nStreams' = nStreams + 1
    /\ stable' = [stable EXCEPT ![k] =
                     [present |-> TRUE, birth |-> now,
                      immutable |-> immutable, mux |-> nStreams + 1]]

\* Cache.Request(query, immutable)
Request(k, immutable) ==
    /\ Len(reqs) < MaxRequests
    /\ IF RequestHit(k)
       THEN UNCHANGED <<stable, nStreams>>
       ELSE RequestMiss(k, immutable)
    /\ reqs' = Append(reqs, [key |-> k, immutable |-> immutable, at |-> now,
                             birth |-> stable'[k].birth, mux |-> stable'[k].mux,
                             found |-> stable[k]])
    /\ UNCHANGED <<muxVars, streamVars, graphVars, sizeVars, ctimeout, now>>

\* time passes
Tick ==
    /\ now < MaxTime
    /\ now' = now + 1
    /\ UNCHANGED <<muxVars, streamVars, graphVars, sizeVars, ctimeout, stable,
                   nStreams, reqs>>

\* New(Timeout(t)): a cache with any timeout; no multiplexer is run
InitRequests ==
    /\ InitMux
    /\ dbLen = 0
    /\ dbTerminal = "eos"
    /\ view = <<>>
    /\ dbPos = 0
    /\ calls = 0
    /\ InitCache
    /\ ctimeout \in 0..MaxTimeout
    /\ InitStreams
    /\ InitGraph

NextCache ==
    \/ \E k \in Keys, immutable \in BOOLEAN : Request(k, immutable)
    \/ Tick

SpecCache == InitRequests /\ [][NextCache]_vars

\* ----------------------------------------------------------------- sizes
\* a string is the sequence of its characters
Digits == {"0", "1", "2", "3", "4", "5", "6", "7", "8", "9"}
UnitChars == {"k", "m", "g", "t", "p", "K", "M", "G", "T", "P"}
ByteChars == {"b", "B"}

\* the strings the documentation names, each meant to be 1GB
Str1GB == <<"1", "G", "B">>
Str1024MB == <<"1", "0", "2", "4", "M", "B">>
Str1048576KB == <<"1", "0", "4", "8", "5", "7", "6", "K", "B">>
Str1073741824 == <<"1", "0", "7", "3", "7", "4", "1", "8", "2", "4">>
NamedSizes == {Str1GB, Str1024MB, Str1048576KB, Str1073741824}

\* the characters the other strings tried are made of
SizeChars == {"1", ".", " ", "G", "k", "B", "-"}

RECURSIVE StringsOfLen(_)
StringsOfLen(n) ==
    IF n = 0 THEN {<<>>}
    ELSE {Append(t, c) : t \in StringsOfLen(n - 1), c \in SizeChars}

\* the arguments Size is applied to: strings, int64 values, and a value of
\* another type
SizeInputs ==
    {[kind |-> "string", str |-> t, n |-> 0] :
        t \in NamedSizes \cup UNION {StringsOfLen(l) : l \in 0..MaxSizeLen}}
    \cup {[kind |-> "int64", str |-> <<>>, n |-> v] : v \in -MaxBytes..MaxBytes}
    \cup {[kind |-> "other", str |-> <<>>, n |-> 0]}

\* bytes *= 1024
Kilo == 1024

RECURSIVE Pow(_, _)
Pow(b, n) == IF n = 0 THEN 1 ELSE b * Pow(b, n - 1)

\* the position after the run of digits that starts at i
RECURSIVE SkipDigits(_, _)
SkipDigits(s, i) ==
    IF i <= Len(s) /\ s[i] \in Digits THEN SkipDigits(s, i + 1) ELSE i

\* the position after s[i] when it is one of cs, else i
SkipOne(s, i, cs) == IF i <= Len(s) /\ s[i] \in cs THEN i + 1 ELSE i

\* sizexp.FindStringSubmatch(sz) for
\* ^[0-9]*(?:\.[0-9]*)? ?([kmgtpKMGTP]?)[bB]?$ : nothing when sz does not
\* match, else the whole match and the one capture group, the unit letter
FindStringSubmatch(sz) ==
    LET a == SkipDigits(sz, 1)
        b == IF a <= Len(sz) /\ sz[a] = "." THEN SkipDigits(sz, a + 1) ELSE a
        c == SkipOne(sz, b, {" "})
        d == SkipOne(sz, c, UnitChars)
        e == SkipOne(sz, d, ByteChars)
    IN  IF e = Len(sz) + 1 THEN <<sz, SubSeq(sz, c, d - 1)>> ELSE <<>>

\* m[i] of a Go slice
At(m, i) == m[i + 1]

DigitVal(c) ==
    CASE c = "0" -> 0 [] c = "1" -> 1 [] c = "2" -> 2 [] c = "3" -> 3
      [] c = "4" -> 4 [] c = "5" -> 5 [] c = "6" -> 6 [] c = "7" -> 7
      [] c = "8" -> 8 [] c = "9" -> 9

RECURSIVE DigitsVal(_)
DigitsVal(s) ==
    IF s = <<>> THEN 0
    ELSE 10 * DigitsVal(SubSeq(s, 1, Len(s) - 1)) + DigitVal(s[Len(s)])

\* strconv.ParseFloat(s, 64) on signs, digits and a point: the number as
\* num / den, or a syntax error when there is no digit or anything else
ParseFloat(s) ==
    LET signed == Len(s) > 0 /\ s[1] \in {"+", "-"}
        body == IF signed THEN Tail(s) ELSE s
        a == SkipDigits(body, 1)
        b == IF a <= Len(body) /\ body[a] = "." THEN SkipDigits(body, a + 1) ELSE a
        whole == SubSeq(body, 1, a - 1)
        frac == IF b > a THEN SubSeq(body, a + 1, b - 1) ELSE <<>>
    IN  IF b = Len(body) + 1 /\ Len(whole) + Len(frac) > 0
        THEN [ok |-> TRUE,
              num |-> (IF signed /\ s[1] = "-" THEN -1 ELSE 1) * DigitsVal(whole \o frac),
              den |-> Pow(10, Len(frac))]
        ELSE [ok |-> FALSE, num |-> 0, den |-> 1]

\* strings.ToLower on a unit letter
ToLower(u) ==
    CASE u = <<"K">> -> <<"k">> [] u = <<"M">> -> <<"m">> [] u = <<"G">> -> <<"g">>
      [] u = <<"T">> -> <<"t">> [] u = <<"P">> -> <<"p">> [] OTHER -> u

\* the switch used as a jump table: how many times bytes *= 1024 runs
Falls(u) ==
    CASE u = <<"p">> -> 5 [] u = <<"t">> -> 4 [] u = <<"g">> -> 3
      [] u = <<"m">> -> 2 [] u = <<"k">> -> 1 [] OTHER -> 0

\* int64(bytes): the fraction is cut off, towards zero
Int64(num, den) ==
    IF num >= 0 THEN num \div den ELSE -((-num) \div den)

\* parseSizeBytes: m[1] is the unit letter, the only capture group, and it
\* is what goes to ParseFloat; m[2] is past the end of m
parseSizeBytes(sz) ==
    LET m == FindStringSubmatch(sz) IN
    IF Len(m) = 0
    THEN [bytes |-> 0, err |-> "unable to parse", panic |-> FALSE]
    ELSE LET f == ParseFloat(At(m, 1)) IN
         IF ~f.ok
         THEN [bytes |-> 0, err |-> "invalid syntax", panic |-> FALSE]
         ELSE IF Len(m) <= 2
         THEN [bytes |-> 0, err |-> NoErr, panic |-> TRUE]
         ELSE [bytes |-> Int64(f.num * Pow(Kilo, Falls(ToLower(At(m, 2)))), f.den),
               err |-> NoErr, panic |-> FALSE]

\* 5 * time.Minute, in minutes
DefaultTimeout == 5

\* New() with no options: the default budget is parseSizeBytes("1GB"), and
\* New panics when that fails
NewDefault ==
    LET p == parseSizeBytes(Str1GB) IN
    /\ sizeOp' = "new"
    /\ sizeIn' = NoInput
    /\ IF p.panic \/ p.err # NoErr
       THEN /\ sizeErr' = "panic"
            /\ UNCHANGED <<sizeBytes, ctimeout>>
       ELSE /\ sizeErr' = NoErr
            /\ sizeBytes' = p.bytes
            /\ ctimeout' = DefaultTimeout
    /\ UNCHANGED <<muxVars, streamVars, graphVars, now, stable, nStreams, reqs>>

\* Size storing whatever parseSizeBytes returned before it looks at err
ApplySizeStoreFirst(in) ==
    /\ sizeOp' = "size"
    /\ sizeIn' = in
    /\ IF in.kind = "int64"
       THEN /\ sizeBytes' = in.n
            /\ sizeErr' = NoErr
       ELSE IF in.kind = "string"
       THEN LET p == parseSizeBytes(in.str) IN
            /\ sizeBytes' = p.bytes
            /\ sizeErr' = IF p.panic THEN "panic" ELSE p.err
       ELSE /\ sizeErr' = "unable to convert"
            /\ UNCHANGED sizeBytes
    /\ UNCHANGED <<muxVars, streamVars, graphVars, ctimeout, now, stable, nStreams, reqs>>

\* the option Size(ifce) applied to the cache
ApplySize(in) ==
    /\ sizeOp' = "size"
    /\ sizeIn' = in
    /\ IF in.kind = "int64"
       THEN /\ sizeBytes' = in.n
            /\ sizeErr' = NoErr
       ELSE IF in.kind = "string"
       THEN LET p == parseSizeBytes(in.str) IN
            IF p.panic
            THEN sizeErr' = "panic" /\ UNCHANGED sizeBytes
            ELSE IF p.err # NoErr
            THEN sizeErr' = p.err /\ UNCHANGED sizeBytes
            ELSE sizeBytes' = p.bytes /\ sizeErr' = NoErr
       ELSE /\ sizeErr' = "unable to convert"
            /\ UNCHANGED sizeBytes
    /\ UNCHANGED <<muxVars, streamVars, graphVars, ctimeout, now, stable, nStreams, reqs>>

\* a zero-value cache; no multiplexer is run
InitSizes ==
    /\ InitMux
    /\ dbLen = 0
    /\ dbTerminal = "eos"
    /\ view = <<>>
    /\ dbPos = 0
    /\ calls = 0
    /\ InitCache
    /\ ctimeout = 0
    /\ InitStreams
    /\ InitGraph

NextSize ==
    \/ NewDefault
    \/ \E in \in SizeInputs : ApplySize(in)

SpecSize == InitSizes /\ [][NextSize]_vars

\* --------------------------------------------------------- cache manager
\* make(chan *valPipe, 50), make(chan *valPipe, 10) and flush's 10
CheckCap == 50
FillCap == 10
FlushCap == 10

\* a send on a closed channel, and miss's default case
SendOnClosed == "send on closed channel"
UnknownType == "unknown request type"

\* cacheFill starting a miss for every pipe it takes
NeedsMissAlways(k, fl) == TRUE

\* cacheFill: if !inFlight[rqst]
NeedsMiss(k, fl) == k \notin fl

\* hit: val != nil && time.Since(val.birth) < cm.cacheTimeout
Fresh(e) == cmNow - e.birth < ManTimeout

\* a requester, as hit does towards cacheFill: newPipes(cm.checkPipes),
\* which starts the goroutine that will send the pipe, then in <- rqst
Check(i, k) ==
    /\ cmPanic = "none"
    /\ cmPc[i] = "idle"
    /\ cmPc' = [cmPc EXCEPT ![i] = "piping"]
    /\ cmKey' = [cmKey EXCEPT ![i] = k]
    /\ UNCHANGED <<muxVars, cacheVars, streamVars, deltaVars, iterVars, cmResp, reqOut, checkPipes,
                   fillPipes, torn, cmCheckDone, cmFillDone, cmInFlight,
                   cmWaiting, cmMiss, flush, lru, cmNow, cmFetches, cmPanic>>

\* newPipes' goroutine: vp <- pipe, with vp = cm.checkPipes
PipeToCheck(i) ==
    /\ cmPanic = "none"
    /\ cmPc[i] = "piping"
    /\ IF torn
       THEN /\ cmPanic' = SendOnClosed
            /\ UNCHANGED <<cmPc, checkPipes>>
       ELSE /\ Len(checkPipes) < CheckCap
            /\ checkPipes' = Append(checkPipes, i)
            /\ cmPc' = [cmPc EXCEPT ![i] = "queued"]
            /\ UNCHANGED cmPanic
    /\ UNCHANGED <<muxVars, cacheVars, streamVars, deltaVars, iterVars, cmKey, cmResp, reqOut,
                   fillPipes, torn, cmCheckDone, cmFillDone, cmInFlight,
                   cmWaiting, cmMiss, flush, lru, cmNow, cmFetches>>

\* cacheCheck: for pipe := range checkPipes { go cm.hit(pipe) }
CacheCheck ==
    /\ cmPanic = "none"
    /\ ~cmCheckDone
    /\ checkPipes # <<>>
    /\ cmPc' = [cmPc EXCEPT ![Head(checkPipes)] = "hit"]
    /\ checkPipes' = Tail(checkPipes)
    /\ UNCHANGED <<muxVars, cacheVars, streamVars, deltaVars, iterVars, cmKey, cmResp, reqOut,
                   fillPipes, torn, cmCheckDone, cmFillDone, cmInFlight,
                   cmWaiting, cmMiss, flush, lru, cmNow, cmFetches, cmPanic>>

\* cacheCheck: the range loop ends when checkPipes is closed and drained
CheckReturn ==
    /\ cmPanic = "none"
    /\ ~cmCheckDone
    /\ torn
    /\ checkPipes = <<>>
    /\ cmCheckDone' = TRUE
    /\ UNCHANGED <<muxVars, cacheVars, streamVars, deltaVars, iterVars, cmPc, cmKey, cmResp, reqOut,
                   checkPipes, fillPipes, torn, cmFillDone, cmInFlight,
                   cmWaiting, cmMiss, flush, lru, cmNow, cmFetches, cmPanic>>

\* hit: nil for the empty request; the cached data when the entry is there
\* and fresh, nothing when it is there and old; in both cases, and after a
\* nil, the deferred close(pipe.out); else newPipes(cm.fillPipes) and
\* in <- rqst
Hit(i) ==
    LET k == cmKey[i] IN
    /\ cmPanic = "none"
    /\ cmPc[i] = "hit"
    /\ IF k = EmptyRqst
       THEN /\ reqOut' = [reqOut EXCEPT ![i] = <<Nil>>]
            /\ cmPc' = [cmPc EXCEPT ![i] = "done"]
       ELSE IF k \in ManKeys /\ lru[k].present
       THEN /\ reqOut' = [reqOut EXCEPT ![i] =
                             IF Fresh(lru[k]) THEN <<lru[k].data>> ELSE <<>>]
            /\ cmPc' = [cmPc EXCEPT ![i] = "done"]
       ELSE /\ cmPc' = [cmPc EXCEPT ![i] = "filling"]
            /\ UNCHANGED reqOut
    /\ UNCHANGED <<muxVars, cacheVars, streamVars, deltaVars, iterVars, cmKey, cmResp, checkPipes,
                   fillPipes, torn, cmCheckDone, cmFillDone, cmInFlight,
                   cmWaiting, cmMiss, flush, lru, cmNow, cmFetches, cmPanic>>

\* newPipes' goroutine: vp <- pipe, with vp = cm.fillPipes
PipeToFill(i) ==
    /\ cmPanic = "none"
    /\ cmPc[i] = "filling"
    /\ IF torn
       THEN /\ cmPanic' = SendOnClosed
            /\ UNCHANGED <<cmPc, fillPipes>>
       ELSE /\ Len(fillPipes) < FillCap
            /\ fillPipes' = Append(fillPipes, i)
            /\ cmPc' = [cmPc EXCEPT ![i] = "fillq"]
            /\ UNCHANGED cmPanic
    /\ UNCHANGED <<muxVars, cacheVars, streamVars, deltaVars, iterVars, cmKey, cmResp, reqOut,
                   checkPipes, torn, cmCheckDone, cmFillDone, cmInFlight,
                   cmWaiting, cmMiss, flush, lru, cmNow, cmFetches>>

\* cacheFill: case pipe, ok := <-fillPipes with ok: the pipe joins
\* waiting[rqst], and a miss is started unless one is in flight
FillTake ==
    LET i == Head(fillPipes)
        k == cmKey[i]
    IN  /\ cmPanic = "none"
        /\ ~cmFillDone
        /\ fillPipes # <<>>
        /\ fillPipes' = Tail(fillPipes)
        /\ cmWaiting' = [cmWaiting EXCEPT ![k] = Append(cmWaiting[k], i)]
        /\ cmPc' = [cmPc EXCEPT ![i] = "registered"]
        /\ IF NeedsMiss(k, cmInFlight)
           THEN /\ cmInFlight' = cmInFlight \cup {k}
                /\ cmMiss' = [cmMiss EXCEPT ![k] = cmMiss[k] + 1]
           ELSE UNCHANGED <<cmInFlight, cmMiss>>
        /\ UNCHANGED <<muxVars, cacheVars, streamVars, deltaVars, iterVars, cmKey, cmResp, reqOut,
                       checkPipes, torn, cmCheckDone, cmFillDone, flush, lru,
                       cmNow, cmFetches, cmPanic>>

\* cacheFill: case pipe, ok := <-fillPipes with !ok (closed and drained,
\* so pipe is nil): return, and the deferred close(flush)
FillReturn ==
    /\ cmPanic = "none"
    /\ ~cmFillDone
    /\ torn
    /\ fillPipes = <<>>
    /\ cmFillDone' = TRUE
    /\ UNCHANGED <<muxVars, cacheVars, streamVars, deltaVars, iterVars, cmPc, cmKey, cmResp, reqOut,
                   checkPipes, fillPipes, torn, cmCheckDone, cmInFlight,
                   cmWaiting, cmMiss, flush, lru, cmNow, cmFetches, cmPanic>>

\* cacheFill: case f := <-flush: a goroutine per pipe of waiting[f.rqst]
\* that will send f.resp, then delete(inFlight, ..), delete(waiting, ..)
FillFlush ==
    LET f == Head(flush) IN
    /\ cmPanic = "none"
    /\ ~cmFillDone
    /\ flush # <<>>
    /\ flush' = Tail(flush)
    /\ cmPc' = [i \in Reqs |->
                   IF i \in Range(cmWaiting[f.rqst]) THEN "deliver" ELSE cmPc[i]]
    /\ cmResp' = [i \in Reqs |->
                     IF i \in Range(cmWaiting[f.rqst]) THEN f.resp ELSE cmResp[i]]
    /\ cmInFlight' = cmInFlight \ {f.rqst}
    /\ cmWaiting' = [cmWaiting EXCEPT ![f.rqst] = <<>>]
    /\ UNCHANGED <<muxVars, cacheVars, streamVars, deltaVars, iterVars, cmKey, reqOut, checkPipes,
                   fillPipes, torn, cmCheckDone, cmFillDone, cmMiss, lru, cmNow,
                   cmFetches, cmPanic>>

\* the goroutine of a flush: out <- f.resp; close(out) on the fill pipe,
\* whose buffer of one is empty
FillDeliver(i) ==
    /\ cmPanic = "none"
    /\ cmPc[i] = "deliver"
    /\ cmPc' = [cmPc EXCEPT ![i] = "forward"]
    /\ UNCHANGED <<muxVars, cacheVars, streamVars, deltaVars, iterVars, cmKey, cmResp, reqOut,
                   checkPipes, fillPipes, torn, cmCheckDone, cmFillDone,
                   cmInFlight, cmWaiting, cmMiss, flush, lru, cmNow, cmFetches,
                   cmPanic>>

\* hit: pipe.out <- <-out, and the deferred close(pipe.out)
HitForward(i) ==
    /\ cmPanic = "none"
    /\ cmPc[i] = "forward"
    /\ reqOut' = [reqOut EXCEPT ![i] = <<cmResp[i]>>]
    /\ cmPc' = [cmPc EXCEPT ![i] = "done"]
    /\ UNCHANGED <<muxVars, cacheVars, streamVars, deltaVars, iterVars, cmKey, cmResp, checkPipes,
                   fillPipes, torn, cmCheckDone, cmFillDone, cmInFlight,
                   cmWaiting, cmMiss, flush, lru, cmNow, cmFetches, cmPanic>>

\* miss: panic on a request of unknown type; else fetch, cache.Add and the
\* send on flush, which panics once cacheFill has closed flush
Miss(k) ==
    /\ cmPanic = "none"
    /\ cmMiss[k] > 0
    /\ IF k = UnknownRqst
       THEN /\ cmPanic' = UnknownType
            /\ UNCHANGED <<cmMiss, flush, lru, cmFetches>>
       ELSE /\ cmFetches' = cmFetches + 1
            /\ lru' = [lru EXCEPT ![k] = [present |-> TRUE, birth |-> cmNow,
                                          data |-> cmFetches + 1]]
            /\ IF cmFillDone
               THEN /\ cmPanic' = SendOnClosed
                    /\ UNCHANGED <<cmMiss, flush>>
               ELSE /\ Len(flush) < FlushCap
                    /\ flush' = Append(flush, [rqst |-> k, resp |-> cmFetches + 1])
                    /\ cmMiss' = [cmMiss EXCEPT ![k] = cmMiss[k] - 1]
                    /\ UNCHANGED cmPanic
    /\ UNCHANGED <<muxVars, cacheVars, streamVars, deltaVars, iterVars, cmPc, cmKey, cmResp, reqOut,
                   checkPipes, fillPipes, torn, cmCheckDone, cmFillDone,
                   cmInFlight, cmWaiting, cmNow>>

\* TeardownCache: close(cm.checkPipes), close(cm.fillPipes), cache.Purge()
TeardownCache ==
    /\ cmPanic = "none"
    /\ ~torn
    /\ torn' = TRUE
    /\ lru' = [k \in ManKeys |-> NoLru]
    /\ UNCHANGED <<muxVars, cacheVars, streamVars, deltaVars, iterVars, cmPc, cmKey, cmResp, reqOut,
                   checkPipes, fillPipes, cmCheckDone, cmFillDone, cmInFlight,
                   cmWaiting, cmMiss, flush, cmNow, cmFetches, cmPanic>>

\* time passes
ManTick ==
    /\ cmPanic = "none"
    /\ cmNow < MaxManTime
    /\ cmNow' = cmNow + 1
    /\ UNCHANGED <<muxVars, cacheVars, streamVars, deltaVars, iterVars, cmPc, cmKey, cmResp, reqOut,
                   checkPipes, fillPipes, torn, cmCheckDone, cmFillDone,
                   cmInFlight, cmWaiting, cmMiss, flush, lru, cmFetches,
                   cmPanic>>

NextMan ==
    \/ \E i \in Reqs, k \in ManKeys \cup {EmptyRqst, UnknownRqst} : Check(i, k)
    \/ \E i \in Reqs : PipeToCheck(i)
    \/ CacheCheck
    \/ CheckReturn
    \/ \E i \in Reqs : Hit(i)
    \/ \E i \in Reqs : PipeToFill(i)
    \/ FillTake
    \/ FillReturn
    \/ FillFlush
    \/ \E i \in Reqs : FillDeliver(i)
    \/ \E i \in Reqs : HitForward(i)
    \/ \E k \in ManKeys \cup {UnknownRqst} : Miss(k)
    \/ TeardownCache
    \/ ManTick

SpecMan == InitSizes /\ [][NextMan]_vars

\* ------------------------------------------------------------ ApplyDeltas
\* graph.Subject .. graph.Label, the directions writeDelta writes a node for
FirstDir == 1
LastDir == 4

\* the parts of a delta's write: the link row, a node per direction, and
\* the size counter the link goroutine updates after the link row
LinkPart == 0
CountPart == 5

\* make(chan error, 5*len(deltas))
ErrPerDelta == 5

\* the request whose cached answer ApplyDeltas drops: "size"
SizeRqst == 1

\* the error a failed write comes back with, one of its own per write
ErrOf(j, part) == (CountPart + 1) * (j - 1) + part + 1

\* the error value of a write that failed or not
ErrIf(failed, j, part) == IF failed THEN ErrOf(j, part) ELSE Nil

\* a sequence without its nils
RECURSIVE NonNil(_)
NonNil(q) ==
    IF q = <<>> THEN <<>>
    ELSE IF Head(q) = Nil THEN NonNil(Tail(q)) ELSE <<Head(q)>> \o NonNil(Tail(q))

\* ApplyDeltas up to wg.Wait(): writeDelta for each valid delta to add or
\* delete, which starts the link goroutine and one node goroutine per
\* direction; then the goroutine that reads errCh
ApplyDeltas(ds) ==
    /\ dPc = "idle"
    /\ dDeltas' = ds
    /\ dWriters' = {[delta |-> j, part |-> pt] :
                      j \in {n \in 1..Len(ds) :
                                ds[n].valid /\ ds[n].action \in {"add", "delete"}},
                      pt \in {LinkPart} \cup FirstDir..LastDir}
    /\ dCollect' = "running"
    /\ dPc' = "waiting"
    /\ UNCHANGED <<muxVars, cacheVars, streamVars, manVars, iterVars, errCh, errClosed,
                   dErr, dRet, dReported>>

\* The writes index ids, which the source leaves empty (ids := []string{}), so
\* as written ids[0] and ids[d-1] panic before any write is made; the model
\* takes ids as filled and each write's outcome as an input.

\* writeDelta's link goroutine: err of the link row is overwritten by err of
\* the counter update, which is what goes to errCh; then wg.Done()
WriteLink(w, linkFails, countFails) ==
    /\ dCollect # "panic"
    /\ w \in dWriters
    /\ w.part = LinkPart
    /\ Len(errCh) < ErrPerDelta * Len(dDeltas)
    /\ errCh' = Append(errCh, ErrIf(countFails, w.delta, CountPart))
    /\ dReported' = dReported
                      \o NonNil(<<ErrIf(linkFails, w.delta, LinkPart),
                                  ErrIf(countFails, w.delta, CountPart)>>)
    /\ dWriters' = dWriters \ {w}
    /\ UNCHANGED <<muxVars, cacheVars, streamVars, manVars, iterVars, dDeltas, dPc,
                   errClosed, dErr, dRet, dCollect>>

\* writeDelta's node goroutine: errCh <- cs.writeNode(...); wg.Done()
WriteNode(w, fails) ==
    /\ dCollect # "panic"
    /\ w \in dWriters
    /\ w.part \in FirstDir..LastDir
    /\ Len(errCh) < ErrPerDelta * Len(dDeltas)
    /\ errCh' = Append(errCh, ErrIf(fails, w.delta, w.part))
    /\ dReported' = dReported \o NonNil(<<ErrIf(fails, w.delta, w.part)>>)
    /\ dWriters' = dWriters \ {w}
    /\ UNCHANGED <<muxVars, cacheVars, streamVars, manVars, iterVars, dDeltas, dPc,
                   errClosed, dErr, dRet, dCollect>>

\* the reading goroutine, one e of errCh: if e != nil { if err != nil
\* { err = e }; glog.Errorf(.., err.Error()) }, and err.Error() on a nil err
\* panics
Collect ==
    LET e == Head(errCh)
        err == IF e # Nil /\ dErr # Nil THEN e ELSE dErr
    IN  /\ dCollect = "running"
        /\ errCh # <<>>
        /\ errCh' = Tail(errCh)
        /\ dErr' = err
        /\ dCollect' = IF e # Nil /\ err = Nil THEN "panic" ELSE dCollect
        /\ UNCHANGED <<muxVars, cacheVars, streamVars, manVars, iterVars, dDeltas, dPc,
                       dWriters, errClosed, dRet, dReported>>

\* the reading goroutine: range ends on the closed and drained errCh
CollectEnd ==
    /\ dCollect = "running"
    /\ errCh = <<>>
    /\ errClosed
    /\ dCollect' = "done"
    /\ UNCHANGED <<muxVars, cacheVars, streamVars, manVars, iterVars, dDeltas, dPc,
                   dWriters, errCh, errClosed, dErr, dRet, dReported>>

\* ApplyDeltas after wg.Wait(): close(errCh), cs.cache.Remove("size"),
\* return err
ApplyReturn ==
    /\ dCollect # "panic"
    /\ dPc = "waiting"
    /\ dWriters = {}
    /\ errClosed' = TRUE
    /\ lru' = [lru EXCEPT ![SizeRqst] = NoLru]
    /\ dRet' = dErr
    /\ dPc' = "returned"
    /\ UNCHANGED <<muxVars, cacheVars, streamVars, iterVars, cmPc, cmKey, cmResp, reqOut,
                   checkPipes, fillPipes, torn, cmCheckDone, cmFillDone,
                   cmInFlight, cmWaiting, cmMiss, flush, cmNow, cmFetches,
                   cmPanic, dDeltas, dWriters, errCh, dErr, dReported, dCollect>>

NextDeltas ==
    \/ \E ds \in UNION {DeltaSeqs(n) : n \in 0..MaxDeltas} : ApplyDeltas(ds)
    \/ \E w \in dWriters, linkFails \in BOOLEAN, countFails \in BOOLEAN :
          WriteLink(w, linkFails, countFails)
    \/ \E w \in dWriters, fails \in BOOLEAN : WriteNode(w, fails)
    \/ Collect
    \/ CollectEnd
    \/ ApplyReturn

SpecDeltas == InitSizes /\ [][NextDeltas]_vars

\* ------------------------------------------------------ Int64 all iterator
\* the int64 range, at the width of the model
MinInt == -Pow(2, IntBits - 1)
MaxInt == Pow(2, IntBits - 1) - 1
Ints == MinInt..MaxInt

\* int64 arithmetic wraps around
WrapInt(x) == ((x - MinInt) % Pow(2, IntBits)) + MinInt

\* the value of at that Next reads as "no more"
AtEnd == -1

\* the values a, a+1, ..., b in order
Upto(a, b) == [k \in 1..(b - a + 1) |-> a + k - 1]

IsPrefix(s, t) == Len(s) <= Len(t) /\ \A k \in 1..Len(s) : s[k] = t[k]

\* Size(): ((it.max - it.min) + 1)
Int64Size == WrapInt(WrapInt(itMax - itMin) + 1)

\* NewInt64(min, max)
NewInt64(min, max) ==
    /\ ~itMade
    /\ itMade' = TRUE
    /\ itMin' = min
    /\ itMax' = max
    /\ itAt' = min
    /\ UNCHANGED <<muxVars, cacheVars, streamVars, manVars, deltaVars, itResult,
                   itYield, itRet, itPast>>

\* Reset(): it.at = it.min
Int64Reset ==
    /\ itMade
    /\ itAt' = itMin
    /\ itYield' = <<>>
    /\ itRet' = <<>>
    /\ itPast' = 0
    /\ UNCHANGED <<muxVars, cacheVars, streamVars, manVars, deltaVars, itMade,
                   itMin, itMax, itResult>>

\* Next() with at == -1: returns false
Int64NextEnd ==
    /\ itMade
    /\ itAt = AtEnd
    /\ itPast < MaxPastEnd
    /\ itRet' = <<FALSE>>
    /\ itPast' = itPast + 1
    /\ UNCHANGED <<muxVars, cacheVars, streamVars, manVars, deltaVars, itMade,
                   itMin, itMax, itAt, itResult, itYield>>

\* Next() otherwise: val := it.at; it.at = it.at + 1, or -1 once past max;
\* it.result = val; returns true
Int64NextVal ==
    LET val == itAt
        at == WrapInt(itAt + 1)
    IN  /\ itMade
        /\ itAt # AtEnd
        /\ itAt' = IF at > itMax THEN AtEnd ELSE at
        /\ itResult' = <<val>>
        /\ itYield' = Append(itYield, val)
        /\ itRet' = <<TRUE>>
        /\ UNCHANGED <<muxVars, cacheVars, streamVars, manVars, deltaVars, itMade,
                       itMin, itMax, itPast>>

Int64Next == Int64NextEnd \/ Int64NextVal

NextIter ==
    \/ \E min \in Ints, max \in Ints : NewInt64(min, max)
    \/ Int64Reset
    \/ Int64Next

SpecIter == InitSizes /\ [][NextIter]_vars

\* ---------------------------------------------------------------- claims
Answered(r) == got[r].kind # "none"

\* C1: at most one backend Materialize call is outstanding at any time; an
\* ask that misses while a pull is outstanding only joins the wait set.
C1_AtMostOnePull == inFlight + Len(ready) <= 1

\* C1 witness: a pull is in flight and a second asker has joined the wait set
C1_Witness == inFlight = 1 /\ Len(waiting) >= 2

\* C2: every caller that asks for index i receives the same value and the
\* same error status, whenever it asks.
C2_SameAnswerPerIndex ==
    \A r1, r2 \in Readers :
        (Answered(r1) /\ Answered(r2) /\ got[r1].index = got[r2].index)
            => (got[r1].value = got[r2].value /\ got[r1].ok = got[r2].ok)

\* C3: the number of backend Materialize invocations never exceeds len(view).
C3_CallsBoundedByView == calls <= Len(view)

\* C4: when a pull completes every waiter receives exactly one answer with
\* the pulled value on its own answer channel (no answer goroutine sends on
\* another waiter's channel, and none fails on a closed channel).
C4_WaitersAnsweredOnOwnChannel ==
    /\ ~panicked
    /\ \A r \in Readers :
          /\ rpc[r] # "closed"
          /\ Answered(r) => (got[r].kind # "closed" /\ got[r].own = rpipe[r])

\* C5: each completed successful pull appends the pulled value to view.
C5_ViewGrowsWithPulls ==
    [][\A j \in 1..Len(ready) :
          (ready[j].kind = "val" /\ ready' = RemoveAt(ready, j))
              => view' = Append(view, ready[j].val)]_vars

\* C6: an ask for an index below len(view) is answered with view[index] and
\* no error, whatever error the request has recorded; it starts no backend
\* call and does not join the wait set.
C6_CachedStateOk ==
    \A r \in Readers :
        /\ (rpc[r] = "waiting" /\ ridx[r] < Len(view)) =>
               /\ rpipe[r] \notin Range(waiting)
               /\ \E g \in answers :
                     g.own = rpipe[r] /\ g.val = view[ridx[r] + 1] /\ g.pc = "send"
        /\ (Answered(r) /\ got[r].index < Len(view)) =>
               (got[r].value = view[got[r].index + 1] /\ got[r].ok)

C6_CachedStepOk ==
    \A r \in Readers :
        (rpc[r] = "idle" /\ rpc'[r] = "waiting" /\ ridx'[r] < Len(view)) =>
            (calls' = calls /\ inFlight' = inFlight /\ waiting' = waiting)

C7_IndexPastViewIsUsageError ==
    \A r \in Readers :
        ridx[r] > Len(view) =>
            /\ rpc[r] = "waiting" => rpipe[r] \notin Range(waiting)
            /\ (Answered(r) /\ got[r].index = ridx[r]) => ~got[r].ok

\* C8: once Materialize has returned hasMore = false with an error, the
\* backend's Materialize is never invoked again.
C8_BackendErrorSticky ==
    [][(dbEnded /\ dbTerminal = "err") => calls' = calls]_vars

\* C9: an answer that reports the clean end of the stream is never a valid
\* value: getValue returns hasValue = false for it.
C9_EndOfStreamIsNoValue ==
    \A r \in Readers : got[r].kind = "eos" => ~got[r].ok

\* C10: two Request calls for the same key issued back to back, both with
\* immutable = true or the second within the timeout of the entry that
\* served the first, are served from the same multiplexer (one backend
\* stream).
C10_BackToBackOneStream ==
    \A i \in 1..(Len(reqs) - 1) :
        LET a == reqs[i]
            b == reqs[i + 1]
        IN  (a.key = b.key /\
             ((a.immutable /\ b.immutable) \/ b.at - a.birth < ctimeout))
                => b.mux = a.mux

\* C11: a Request for a key whose stable entry was created with
\* immutable = true is a hit (served from that entry's multiplexer) however
\* much time has passed, for any timeout.
C11_ImmutableAlwaysHit ==
    \A i \in 1..Len(reqs) :
        (reqs[i].found.present /\ reqs[i].found.immutable)
            => reqs[i].mux = reqs[i].found.mux

\* C12: a Request for a key whose stable entry is not immutable and is older
\* than the (non-zero) timeout is a miss: it is not served from that
\* entry's multiplexer.
C12_StaleEntryIsMiss ==
    \A i \in 1..Len(reqs) :
        (/\ reqs[i].found.present
         /\ ~reqs[i].found.immutable
         /\ ctimeout # 0
         /\ reqs[i].at - reqs[i].found.birth > ctimeout)
            => reqs[i].mux # reqs[i].found.mux

\* C12 witness: a Request found a stale entry that is not immutable
C12_Witness ==
    \E i \in 1..Len(reqs) :
        /\ reqs[i].found.present
        /\ ~reqs[i].found.immutable
        /\ ctimeout # 0
        /\ reqs[i].at - reqs[i].found.birth > ctimeout
        /\ reqs[i].mux = nStreams

\* C13: with Timeout 0 expiry is off: a Request for a key that has an entry
\* is a hit at every later time.
C13_ZeroTimeoutNeverExpires ==
    \A i \in 1..Len(reqs) :
        (ctimeout = 0 /\ reqs[i].found.present)
            => reqs[i].mux = reqs[i].found.mux


\* a step changes something of handle h
HandleChanged(h) ==
    \/ sidx'[h] # sidx[h] \/ spc'[h] # spc[h] \/ serr'[h] # serr[h]
    \/ sclosed'[h] # sclosed[h] \/ resetCh'[h] # resetCh[h]
    \/ valuesCh'[h] # valuesCh[h] \/ cpc'[h] # cpc[h] \/ cres'[h] # cres[h]
    \/ asked'[h] # asked[h] \/ wasReset'[h] # wasReset[h]

\* C14: handle isolation. A step of a handle that is closed when the step
\* ends (its Close itself, and whatever its process and its consumer do
\* afterwards) changes nothing of the multiplexer and nothing of any other
\* handle: the others keep their cursor and go on reading.
C14_CloseLeavesOthersAlone ==
    [][\A h1 \in Readers :
          (sclosed'[h1] /\ HandleChanged(h1))
              => /\ muxVars' = muxVars
                 /\ \A h2 \in Readers \ {h1} : ~HandleChanged(h2)]_vars

\* one handle is closed and the other, still open, was handed a value by a
\* Materialize that returned after that Close
C14_Witness ==
    \E h1 \in Readers : \E h2 \in Readers \ {h1} :
        /\ sclosed[h1]
        /\ ~sclosed[h2]
        /\ cres[h2].kind = "value"
        /\ cres[h2].peerClosed

\* C15: after Reset the handle starts again at index 0: the first index its
\* process asks the multiplexer for after a Reset is 0.
C15_ResetReadsIndexZero ==
    \A h \in Readers :
        (wasReset[h] /\ Len(asked[h]) >= 1) => asked[h][1] = 0

\* C16: a fresh handle that is never reset asks for 0, 1, 2, ... in order:
\* its k-th ask is for index k - 1.
C16_FreshHandleAsksFromZero ==
    \A h \in Readers :
        ~wasReset[h] => \A k \in 1..Len(asked[h]) : asked[h][k] = k - 1

\* C17: a handle that stored an error comes back with Reset: a Reset called
\* on an open handle that holds an error is taken up by the handle's process,
\* it is never left waiting on a process that has ended.
C17_ResetRevivesErroredHandle ==
    \A h \in Readers :
        (cpc[h] = "reset" /\ resetCh[h] = "open") => spc[h] # "done"

\* C18: a Materialize or Reset that returns on a closed handle, one racing
\* with the Close included, returns a usage error to its caller.
C18_UseAfterCloseIsUsageError ==
    \A h \in Readers :
        (cres[h].closed /\ cres[h].op \in {"materialize", "reset"})
            => cres[h].kind \in {"usage", "panic"}

\* C19: fan-out is non-blocking. While the program runs, answers still owed
\* to readers hold up nobody: process accepts the ask of any idle reader and
\* takes any pulled value that is ready, and every answer goroutine whose
\* own reader waits on its open channel can hand its answer over, whatever
\* other answers are still undelivered.
C19_FanOutNonBlocking ==
    ~panicked =>
        /\ \A r \in Readers :
              (rpc[r] = "idle" /\ nextPipe <= MaxAsks)
                  => ENABLED (Ask(r, 0) /\ UNCHANGED streamVars)
        /\ ready # <<>> => ENABLED ProcessMaterialized
        /\ \A g \in answers :
              (g.pc = "send" /\ chan[g.own] = "open"
               /\ \E r \in Readers : rpc[r] = "waiting" /\ rpipe[r] = g.own)
                  => ENABLED Deliver(g)

\* two waiters of one pull: the answer of the first is still undelivered,
\* its reader still blocked, and the second has received its own
C19_Witness ==
    \E g \in answers : \E r1 \in Readers : \E r2 \in Readers \ {r1} :
        /\ g.pc = "send"
        /\ rpc[r1] = "waiting"
        /\ rpipe[r1] = g.own
        /\ rpc[r2] = "idle"
        /\ got[r2].kind \in {"val", "eos", "err"}
        /\ got[r2].own = rpipe[r2]
        /\ \E j \in 2..Len(g.rest) : g.rest[j] = rpipe[r2]

\* C20: size parsing is unit-consistent. Size applied to "1GB", "1024MB",
\* "1048576KB" or "1073741824" succeeds and sets the budget to 1073741824
\* bytes, and New() with no options comes back with that budget.
C20_SizeUnitConsistent ==
    /\ (sizeOp = "size" /\ sizeIn.kind = "string" /\ sizeIn.str \in NamedSizes)
           => (sizeErr = NoErr /\ sizeBytes = Kilo * Kilo * Kilo)
    /\ sizeOp = "new" => (sizeErr = NoErr /\ sizeBytes = Kilo * Kilo * Kilo)

\* a string sizexp does not match
Malformed(str) == Len(FindStringSubmatch(str)) = 0

\* C21: Size applied to a malformed string or to a value of an unsupported
\* type returns an error, and a Size that returns an error leaves the
\* budget as it was (0 on a cache whose budget was never set).
C21_FailedSizeKeepsBudget ==
    [][sizeOp' = "size" =>
          /\ (sizeIn'.kind = "other"
                 \/ (sizeIn'.kind = "string" /\ Malformed(sizeIn'.str)))
                => sizeErr' # NoErr
          /\ sizeErr' # NoErr => sizeBytes' = sizeBytes]_vars

\* a budget set to something other than 0, then a malformed string refused
C21_Witness ==
    /\ sizeOp = "size"
    /\ sizeIn.kind = "string"
    /\ Malformed(sizeIn.str)
    /\ sizeErr # NoErr
    /\ sizeBytes # 0

\* C22: after Size has been applied, whatever its input, the budget is not
\* negative.
C22_BudgetNeverNegative == sizeBytes >= 0

\* C23: in cacheFill at most one miss goroutine is in flight for a request
\* at any time, however many requesters ask for it meanwhile.
C23_OneMissPerKey == \A k \in ManKeys \cup {UnknownRqst} : cmMiss[k] <= 1

\* two requesters wait in cacheFill for the same request while its one
\* miss is still running
C23_Witness ==
    \E k \in ManKeys : cmMiss[k] = 1 /\ Len(cmWaiting[k]) >= 2

\* C24: a requester whose pipe cacheFill has registered gets the fetched
\* response in the end: it is never left where no answer can come any more,
\* the program ended by a panic or cacheFill gone with the pipe still in
\* waiting.
C24_RegisteredIsAnswered ==
    \A i \in Reqs :
        cmPc[i] \in {"registered", "deliver", "forward"}
            => /\ cmPanic = "none"
               /\ ~(cmFillDone /\ cmPc[i] = "registered")

\* C25: a check of a well-formed request, whether the cache holds nothing,
\* a fresh entry or an old one for it, ends with data on pipe.out and never
\* with nothing or nil.
C25_CheckEndsWithData ==
    \A i \in Reqs :
        (cmPc[i] = "done" /\ cmKey[i] \in ManKeys)
            => (reqOut[i] # <<>> /\ reqOut[i][1] # Nil)

\* C26: no goroutine of the cache manager sends on a closed channel, after
\* TeardownCache as before it.
C26_NoSendOnClosed == cmPanic # SendOnClosed

\* C27: a Reset called on an open handle by the handle's only consumer
\* returns in the end: the consumer is never in Reset while the handle's
\* process has ended or is itself waiting for that consumer to read.
C27_ResetReturns ==
    \A h \in Readers :
        (cpc[h] = "reset" /\ resetCh[h] = "open")
            => spc[h] \notin {"sending", "done"}

\* C28: after Close the handle's process ends: it is never left holding a
\* fetched value for a closed handle that nobody is reading.
C28_ProcessEndsAfterClose ==
    \A h \in Readers :
        sclosed[h] => ~(spc[h] = "sending" /\ cpc[h] # "materialize")

\* C29: a reader that was waiting on a pull when the request was closed,
\* and was let go by the close, is not told it has a value.
C29_ClosedWaiterGetsNoValue ==
    \A r \in Readers : got[r].kind = "shut" => ~got[r].ok

\* C30: ApplyDeltas returns nil when no write came back with an error, and
\* else the first error a write came back with.
C30_ReturnsFirstError ==
    dPc = "returned" =>
        IF dReported = <<>> THEN dRet = Nil ELSE dRet = dReported[1]

\* C31: an Int64 built with min <= max yields min, min+1, ..., max in order and
\* nothing else: what Next has returned true with is always the beginning of
\* that list, it is the whole list once Next has returned false, Next keeps
\* returning false from then on, and Size() is the length of the list.
C31_NextYieldsRange ==
    (itMade /\ itMin <= itMax) =>
        /\ IsPrefix(itYield, Upto(itMin, itMax))
        /\ itRet = <<FALSE>> => itYield = Upto(itMin, itMax)
        /\ itPast > 0 => itRet = <<FALSE>>
        /\ Int64Size = itMax - itMin + 1

====
